---- MODULE Spec2Model ----
(***************************************************************************)
(* Model of src/scripts/plot_embeddings_2d.py: a straight-line script that *)
(* loads embedding records from a JSON file, reduces them to 2D with       *)
(* t-SNE, renders a labelled scatter plot and saves it as a PNG.           *)
(*                                                                         *)
(* The script is one process; the file system (the input file and the      *)
(* output image) outlives it.  A behaviour of the model is a sequence of   *)
(* runs of the script over the same input file, so that statements about   *)
(* a second run (overwrite, reproducibility) are statements about states.  *)
(***************************************************************************)
EXTENDS Integers, Sequences, FiniteSets, TLC

\* ------------------------------------------------------------ constants
\* TSNE(n_components=2, random_state=42, perplexity=30, ...)      (line 24)
NComponents == 2
RandomState == 42
Perplexity == 30
\* 'tab20': the qualitative palette of 20 entries                 (line 31)
PaletteSize == 20

\* ------------------------------------------------------------ bounds
\* most records in the input file
MaxN == 33
\* longest embedding vector
MaxDim == 3
\* runs of the script in one behaviour
MaxRuns == 2

\* ------------------------------------------------------------ paths
data_path == "../doc/vectorized-data/vectorized-data.json"
output_img == "embeddings_2d.png"

VARIABLES
    inputFile,      \* the file at data_path (never written by the script)
    outFile,        \* the file at output_img
    clock,          \* file-system time: advances with every write
    run,            \* number of the current run, 1..MaxRuns
    pc,             \* position of the current run in the script
    data,           \* line 13
    k,              \* items of data the for loop of line 17 has consumed
    embeddings,     \* lines 15, 18
    labels,         \* lines 16, 19
    embeddings_2d,  \* line 25
    num_points,     \* line 30
    scatter,        \* line 32: palette entry drawn for each point
    annots,         \* line 36: the annotations drawn
    stdout,         \* lines printed by the current run
    failure,        \* the uncaught exception that ended the run, if any
    entered,        \* ghost: times each stage was entered in this run
    steps,          \* ghost: steps the current run has taken
    outFileAtStart, \* ghost: outFile when the current run started
    history         \* ghost: what the earlier runs ended with

vars == <<inputFile, outFile, clock, run, pc, data, k, embeddings, labels,
          embeddings_2d, num_points, scatter, annots, stdout, failure,
          entered, steps, outFileAtStart, history>>

\* ------------------------------------------------------------ input file
IdNames == <<"a", "b", "c">>

\* positions at which an input file may carry a defect (0: nowhere)
Pos(n) == {0} \cup ({1, n} \cap (1..n))

\* The files the model is run on.  A parseable file is an array of n
\* objects of vectors of length dim; record noEmbAt lacks 'embedding',
\* record raggedAt has one more component, record noIdAt lacks 'id'.
InputFiles ==
    {[state |-> s, n |-> 0, dim |-> 1, noEmbAt |-> 0, raggedAt |-> 0,
      noIdAt |-> 0] : s \in {"missing", "invalid"}}
    \cup
    UNION {[state : {"ok"}, n : {n}, dim : 1..MaxDim, noEmbAt : Pos(n),
            raggedAt : Pos(n), noIdAt : Pos(n)] : n \in 0..MaxN}

Vector(f, i) ==
    [j \in 1..(f.dim + (IF f.raggedAt = i THEN 1 ELSE 0)) |-> i % 2]

IdOf(i) == IdNames[((i - 1) % Len(IdNames)) + 1]

\* the i-th object of the array in file f
RecordAt(f, i) ==
    CASE f.noEmbAt = i /\ f.noIdAt = i -> [other |-> 0]
      [] f.noEmbAt = i /\ f.noIdAt # i -> [id |-> IdOf(i)]
      [] f.noEmbAt # i /\ f.noIdAt = i -> [embedding |-> Vector(f, i)]
      [] OTHER -> [id |-> IdOf(i), embedding |-> Vector(f, i)]

\* json.load(f) of a parseable file
JsonLoad(f) == [i \in 1..f.n |-> RecordAt(f, i)]

\* ------------------------------------------------------------ output file
Absent == [kind |-> "absent", by |-> 0, mtime |-> 0]
OldImage == [kind |-> "image", by |-> 0, mtime |-> 0]

NoFailure == [stage |-> "none", exc |-> "none"]

StageOf(p) ==
    CASE p \in {"open", "loop"} -> "Load"
      [] p = "reduce" -> "Reduce"
      [] p = "render" -> "Render"
      [] p \in {"savefig", "print"} -> "Write"
      [] p = "done" -> "Done"
      [] OTHER -> "Failed"

Stages == {"Load", "Reduce", "Render", "Write"}
Terminal == {"done", "failed"}

Init ==
    /\ inputFile \in InputFiles
    /\ outFile \in {Absent, OldImage}
    /\ clock = 0
    /\ run = 1
    /\ pc = "open"
    /\ data = <<>>
    /\ k = 0
    /\ embeddings = <<>>
    /\ labels = <<>>
    /\ embeddings_2d = <<>>
    /\ num_points = 0
    /\ scatter = <<>>
    /\ annots = <<>>
    /\ stdout = <<>>
    /\ failure = NoFailure
    /\ entered = [s \in Stages |-> IF s = "Load" THEN 1 ELSE 0]
    /\ steps = 0
    /\ outFileAtStart = outFile
    /\ history = <<>>

\* an uncaught exception: the interpreter unwinds, nothing else runs
Raise(exc) ==
    /\ pc' = "failed"
    /\ failure' = [stage |-> StageOf(pc), exc |-> exc]
    /\ steps' = steps + 1

Goto(p) ==
    /\ pc' = p
    /\ steps' = steps + 1
    /\ entered' = IF StageOf(p) \in Stages /\ StageOf(p) # StageOf(pc)
                  THEN [entered EXCEPT ![StageOf(p)] = @ + 1]
                  ELSE entered
    /\ failure' = failure

\* ------------------------------------------------------------ Load
\* a loader that takes a missing file for an empty data set
OpenMissingAsEmpty ==
    /\ pc = "open"
    /\ inputFile.state \in {"ok", "missing"}
    /\ data' = JsonLoad(inputFile)
    /\ k' = 0
    /\ embeddings' = <<>>
    /\ labels' = <<>>
    /\ Goto("loop")
    /\ UNCHANGED <<inputFile, outFile, clock, run, embeddings_2d, num_points,
                   scatter, annots, stdout, outFileAtStart, history>>

\* lines 12-16: open(data_path) and json.load succeed; the lists start empty
Open ==
    /\ pc = "open"
    /\ inputFile.state = "ok"
    /\ data' = JsonLoad(inputFile)
    /\ k' = 0
    /\ embeddings' = <<>>
    /\ labels' = <<>>
    /\ Goto("loop")
    /\ UNCHANGED <<inputFile, outFile, clock, run, embeddings_2d, num_points,
                   scatter, annots, stdout, outFileAtStart, history>>

\* lines 12-13: open raises FileNotFoundError on a missing file, json.load
\* raises JSONDecodeError on text that is not JSON
OpenFail ==
    /\ pc = "open"
    /\ inputFile.state # "ok"
    /\ Raise(IF inputFile.state = "missing" THEN "FileNotFoundError"
             ELSE "JSONDecodeError")
    /\ UNCHANGED <<inputFile, outFile, clock, run, data, k, embeddings, labels,
                   embeddings_2d, num_points, scatter, annots, stdout, entered,
                   outFileAtStart, history>>

\* item.get('id', '')
GetId(item) == IF "id" \in DOMAIN item THEN item.id ELSE ""

\* lines 17-19, one iteration over an item that has 'embedding'
LoadItem ==
    /\ pc = "loop"
    /\ k < Len(data)
    /\ "embedding" \in DOMAIN data[k + 1]
    /\ embeddings' = Append(embeddings, data[k + 1].embedding)
    /\ labels' = Append(labels, GetId(data[k + 1]))
    /\ k' = k + 1
    /\ Goto("loop")
    /\ UNCHANGED <<inputFile, outFile, clock, run, data, embeddings_2d,
                   num_points, scatter, annots, stdout, outFileAtStart, history>>

\* a slip that reads the id before the embedding (lines 18 and 19 swapped)
LoadItemFailAfterLabel ==
    /\ pc = "loop"
    /\ k < Len(data)
    /\ "embedding" \notin DOMAIN data[k + 1]
    /\ labels' = Append(labels, GetId(data[k + 1]))
    /\ Raise("KeyError")
    /\ UNCHANGED <<inputFile, outFile, clock, run, data, k, embeddings,
                   embeddings_2d, num_points, scatter, annots, stdout, entered,
                   outFileAtStart, history>>

\* line 18: item['embedding'] raises KeyError, before line 19 runs
LoadItemFail ==
    /\ pc = "loop"
    /\ k < Len(data)
    /\ "embedding" \notin DOMAIN data[k + 1]
    /\ Raise("KeyError")
    /\ UNCHANGED <<inputFile, outFile, clock, run, data, k, embeddings, labels,
                   embeddings_2d, num_points, scatter, annots, stdout, entered,
                   outFileAtStart, history>>

\* line 17: the for loop is exhausted; control reaches line 21
LoopExit ==
    /\ pc = "loop"
    /\ k = Len(data)
    /\ Goto("reduce")
    /\ UNCHANGED <<inputFile, outFile, clock, run, data, k, embeddings, labels,
                   embeddings_2d, num_points, scatter, annots, stdout,
                   outFileAtStart, history>>

\* ------------------------------------------------------------ Reduce
Ragged(X) == \E i, j \in 1..Len(X) : Len(X[i]) # Len(X[j])

\* X.shape[1] of a matrix of equal rows
NFeatures(X) == IF Len(X) = 0 THEN 0 ELSE Len(X[1])

\* an off-by-one perplexity test (perplexity > n_samples)
TsneRejectsOffByOne(X) ==
    \/ Len(X) = 0
    \/ Ragged(X)
    \/ Perplexity > Len(X)
    \/ NFeatures(X) < NComponents

\* lines 21-25: np.array(embeddings) followed by
\* TSNE(n_components=2, perplexity=30, ...).fit_transform raises ValueError
\*   - on an empty list (a 1-D array) and on rows of unequal length,
\*   - when perplexity >= n_samples ("perplexity must be less than n_samples"),
\*   - when the rows have fewer than n_components features: the default
\*     init='pca' runs PCA(n_components=2), which needs n_features >= 2.
\* max_iter is accepted only by releases of the library that make these tests.
TsneRejects(X) ==
    \/ Len(X) = 0
    \/ Ragged(X)
    \/ Perplexity >= Len(X)
    \/ NFeatures(X) < NComponents

\* a projection that loses its last row
FitTransformDropsLast(X, seed) ==
    [i \in 1..(Len(X) - 1) |-> [row |-> i, seed |-> seed, features |-> Len(X[i])]]

\* line 25: the 2D coordinates of row i are a function of the matrix, of the
\* row and of the seed of the generator; they are kept symbolic
FitTransform(X, seed) ==
    [i \in 1..Len(X) |-> [row |-> i, seed |-> seed, features |-> Len(X[i])]]

\* a generator seeded from the environment (random_state=None)
ReduceUnseeded ==
    /\ pc = "reduce"
    /\ ~TsneRejects(embeddings)
    /\ embeddings_2d' = FitTransform(embeddings, clock + run)
    /\ Goto("render")
    /\ UNCHANGED <<inputFile, outFile, clock, run, data, k, embeddings, labels,
                   num_points, scatter, annots, stdout, outFileAtStart, history>>

\* lines 21-25
Reduce ==
    /\ pc = "reduce"
    /\ ~TsneRejects(embeddings)
    /\ embeddings_2d' = FitTransform(embeddings, RandomState)
    /\ Goto("render")
    /\ UNCHANGED <<inputFile, outFile, clock, run, data, k, embeddings, labels,
                   num_points, scatter, annots, stdout, outFileAtStart, history>>

\* lines 21-25 raise ValueError
ReduceFail ==
    /\ pc = "reduce"
    /\ TsneRejects(embeddings) = TRUE
    /\ Raise("ValueError")
    /\ UNCHANGED <<inputFile, outFile, clock, run, data, k, embeddings, labels,
                   embeddings_2d, num_points, scatter, annots, stdout, entered,
                   outFileAtStart, history>>

\* ------------------------------------------------------------ Render
Min(a, b) == IF a < b THEN a ELSE b

\* Colormap.__call__ on a float x = num/den in [0, 1] of a colormap of
\* size entries: int(x * size), and x = 1 gives the last entry.  The
\* quotient is taken exactly; the library's floating-point product can
\* differ by one entry where num * size is a multiple of den.
CmapEntry(num, den, size) ==
    IF den = 0 THEN 0 ELSE Min((num * size) \div den, size - 1)

\* line 31: get_cmap('tab20', n) resamples the palette to n entries, entry j
\* (0-based) being tab20 at linspace(0, 1, n)[j] = j / (n - 1)
Resampled(n) == [j \in 0..(n - 1) |-> CmapEntry(j, n - 1, PaletteSize)]

\* line 32: c=range(n) is normalised to [0, 1] over its own range 0..n-1
\* and looked up in the resampled colormap.  The palette entry of point i
\* (1-based here, row i - 1 of the script).
ColorOf(i, n) == Resampled(n)[CmapEntry(i - 1, n - 1, n)]

\* line 36: one annotation per label, at the coordinates of the same index
Annotations(ls, xy) == [i \in 1..Len(ls) |-> [text |-> ls[i], at |-> xy[i]]]

\* the confirmation line of line 43
Confirmation == [text |-> "2D embedding plot saved to ", path |-> output_img]

\* a slip that prints the confirmation before the figure is saved
RenderPrintsEarly ==
    /\ pc = "render"
    /\ num_points' = Len(embeddings_2d)
    /\ scatter' = [i \in 1..Len(embeddings_2d) |-> ColorOf(i, Len(embeddings_2d))]
    /\ annots' = Annotations(labels, embeddings_2d)
    /\ stdout' = Append(stdout, Confirmation)
    /\ Goto("savefig")
    /\ UNCHANGED <<inputFile, outFile, clock, run, data, k, embeddings, labels,
                   embeddings_2d, outFileAtStart, history>>

\* lines 28-41: the figure is built in memory
Render ==
    /\ pc = "render"
    /\ num_points' = Len(embeddings_2d)
    /\ scatter' = [i \in 1..Len(embeddings_2d) |-> ColorOf(i, Len(embeddings_2d))]
    /\ annots' = Annotations(labels, embeddings_2d)
    /\ Goto("savefig")
    /\ UNCHANGED <<inputFile, outFile, clock, run, data, k, embeddings, labels,
                   embeddings_2d, stdout, outFileAtStart, history>>

\* lines 28-41: the plotting library raises (no usable backend for
\* plt.figure, no get_cmap in the installed release, out of memory);
\* which of these the environment produces is not the script's choice
RenderFail ==
    /\ pc = "render"
    /\ Raise("RenderError")
    /\ UNCHANGED <<inputFile, outFile, clock, run, data, k, embeddings, labels,
                   embeddings_2d, num_points, scatter, annots, stdout, entered,
                   outFileAtStart, history>>

\* ------------------------------------------------------------ Write
\* a writer that leaves an existing file alone
SavefigKeepExisting ==
    /\ pc = "savefig"
    /\ outFile' = IF outFile.kind = "absent"
                  THEN [kind |-> "image", by |-> run, mtime |-> clock + 1]
                  ELSE outFile
    /\ clock' = clock + 1
    /\ Goto("print")
    /\ UNCHANGED <<inputFile, run, data, k, embeddings, labels, embeddings_2d,
                   num_points, scatter, annots, stdout, outFileAtStart, history>>

\* line 42: savefig opens output_img for writing and writes the PNG
Savefig ==
    /\ pc = "savefig"
    /\ outFile' = [kind |-> "image", by |-> run, mtime |-> clock + 1]
    /\ clock' = clock + 1
    /\ Goto("print")
    /\ UNCHANGED <<inputFile, run, data, k, embeddings, labels, embeddings_2d,
                   num_points, scatter, annots, stdout, outFileAtStart, history>>

\* a writer that tries again after a failure
SavefigRetry ==
    /\ pc = "savefig"
    /\ entered["Write"] < 2
    /\ pc' = "savefig"
    /\ steps' = steps + 1
    /\ entered' = [entered EXCEPT !["Write"] = @ + 1]
    /\ UNCHANGED <<inputFile, outFile, clock, run, data, k, embeddings, labels,
                   embeddings_2d, num_points, scatter, annots, stdout, failure,
                   outFileAtStart, history>>

\* line 42: savefig raises before the file is opened for writing (the
\* directory is missing or not writable, the canvas cannot be drawn)
SavefigFailUntouched ==
    /\ pc = "savefig"
    /\ Raise("OSError")
    /\ UNCHANGED <<inputFile, outFile, clock, run, data, k, embeddings, labels,
                   embeddings_2d, num_points, scatter, annots, stdout, entered,
                   outFileAtStart, history>>

\* line 42: savefig raises after the file was opened for writing (the disk
\* fills up, the device fails).  The file is written in place, not to a
\* temporary name, so it is left truncated; a file that this call created
\* is either left truncated or removed again, depending on the image
\* library's release.
SavefigFailMidWrite ==
    /\ pc = "savefig"
    /\ outFile' \in {[kind |-> "partial", by |-> run, mtime |-> clock + 1]}
                    \cup (IF outFile.kind = "absent" THEN {Absent} ELSE {})
    /\ clock' = clock + 1
    /\ Raise("OSError")
    /\ UNCHANGED <<inputFile, run, data, k, embeddings, labels, embeddings_2d,
                   num_points, scatter, annots, stdout, entered, outFileAtStart,
                   history>>

\* line 43
PrintLine ==
    /\ pc = "print"
    /\ stdout' = Append(stdout, Confirmation)
    /\ Goto("done")
    /\ UNCHANGED <<inputFile, outFile, clock, run, data, k, embeddings, labels,
                   embeddings_2d, num_points, scatter, annots, outFileAtStart,
                   history>>

\* ------------------------------------------------------------ runs
\* what a finished run leaves for comparison with a later one
Outcome == [pc |-> pc, failure |-> failure, proj |-> embeddings_2d,
            hasProj |-> entered["Render"] > 0]

\* the script is started again: a fresh process, the same file system
StartRun ==
    /\ pc \in Terminal
    /\ run < MaxRuns
    /\ run' = run + 1
    /\ history' = Append(history, Outcome)
    /\ outFileAtStart' = outFile
    /\ pc' = "open"
    /\ data' = <<>>
    /\ k' = 0
    /\ embeddings' = <<>>
    /\ labels' = <<>>
    /\ embeddings_2d' = <<>>
    /\ num_points' = 0
    /\ scatter' = <<>>
    /\ annots' = <<>>
    /\ stdout' = <<>>
    /\ failure' = NoFailure
    /\ entered' = [s \in Stages |-> IF s = "Load" THEN 1 ELSE 0]
    /\ steps' = 0
    /\ UNCHANGED <<inputFile, outFile, clock>>

\* one step of the running script
RunStep ==
    \/ Open \/ OpenFail
    \/ LoadItem \/ LoadItemFail \/ LoopExit
    \/ Reduce \/ ReduceFail
    \/ Render \/ RenderFail
    \/ Savefig \/ SavefigFailUntouched \/ SavefigFailMidWrite
    \/ PrintLine

Next == RunStep \/ StartRun

Spec == Init /\ [][Next]_vars

\* ============================================================ claims
N == inputFile.n
Parsed == inputFile.state = "ok"
\* every record has an embedding, and all embeddings have the same length
WellFormed == Parsed /\ inputFile.noEmbAt = 0 /\ inputFile.raggedAt = 0
AfterReduce == {"render", "savefig", "print", "done"}
\* the label the script must give record i of the input file
LabelOf(i) == IF inputFile.noIdAt = i THEN "" ELSE IdOf(i)
ReduceValueError == [stage |-> "Reduce", exc |-> "ValueError"]

\* C1 (as stated): for every input with N <= perplexity the run fails with
\* a data-shape error at the Reduce stage and never reaches Render, Write
\* or Done.
C1_SmallInputFailsAtReduce ==
    (Parsed /\ N <= Perplexity) =>
        /\ pc \notin AfterReduce
        /\ pc = "failed" => failure = ReduceValueError

\* C1 (amended): a parseable input with N <= perplexity records never
\* reaches Render, Write or Done, loses no record on the way and cannot
\* hang (a step is always possible until the run has ended, within N + 3
\* steps); the run fails with ValueError at Reduce when every record has an
\* embedding, and with KeyError in Load at the first record lacking one.
C1_SmallInputFails ==
    (Parsed /\ N <= Perplexity) =>
        /\ pc \notin AfterReduce
        /\ entered["Render"] = 0 /\ entered["Write"] = 0
        /\ pc = "reduce" => Len(embeddings) = N
        /\ pc = "failed" =>
              failure = IF inputFile.noEmbAt = 0 THEN ReduceValueError
                        ELSE [stage |-> "Load", exc |-> "KeyError"]
        /\ (pc = "failed" /\ failure.stage = "Reduce") => Len(embeddings) = N
        /\ steps <= N + 3
        /\ pc \notin Terminal => ENABLED RunStep

\* the 3-record input a/b/c of 3-component vectors has failed in Reduce
C1_Witness ==
    /\ WellFormed /\ N = 3 /\ inputFile.dim = 3 /\ inputFile.noIdAt = 0
    /\ labels = <<"a", "b", "c">>
    /\ pc = "failed" /\ failure = ReduceValueError

\* C2: a missing input file fails the run in Load with FileNotFoundError;
\* Reduce, Render and Write are never entered, nothing is projected or
\* drawn and the output file is not touched.
C2_MissingInputFailsInLoad ==
    inputFile.state = "missing" =>
        /\ pc \in {"open", "failed"}
        /\ pc = "failed" =>
              failure = [stage |-> "Load", exc |-> "FileNotFoundError"]
        /\ \A s \in Stages \ {"Load"} : entered[s] = 0
        /\ embeddings_2d = <<>> /\ annots = <<>> /\ scatter = <<>>
        /\ outFile = outFileAtStart /\ clock = 0

C2_Witness ==
    inputFile.state = "missing" /\ pc = "failed" /\ failure.stage = "Load"

\* C3 (as stated): for N >= 2 records of equal length D >= 1 the Reduce
\* stage succeeds and yields N coordinate pairs.
C3_ReduceSucceedsFromTwo ==
    (WellFormed /\ N >= 2 /\ inputFile.dim >= 1) =>
        /\ pc = "failed" => failure.stage \notin {"Load", "Reduce"}
        /\ entered["Render"] > 0 => Len(embeddings_2d) = N

\* C3 (amended): for N > perplexity records of equal length
\* D >= n_components the Reduce stage succeeds and yields N coordinate
\* pairs, pair i being that of input row i, and num_points is N.
C3_ReduceKeepsCardinality ==
    (WellFormed /\ N > Perplexity /\ inputFile.dim >= NComponents) =>
        /\ pc = "failed" => failure.stage \notin {"Load", "Reduce"}
        /\ entered["Render"] > 0 =>
              /\ Len(embeddings_2d) = N
              /\ \A i \in 1..N : embeddings_2d[i].row = i
        /\ entered["Write"] > 0 => num_points = N

C3_Witness ==
    /\ WellFormed /\ N = Perplexity + 1 /\ inputFile.dim = NComponents
    /\ pc = "savefig" /\ Len(embeddings_2d) = N /\ num_points = N

\* C4: a run is the linear sequence Load, Reduce, Render, Write, Done: no
\* stage is entered twice, every step moves to the next position of the
\* script (or round the loading loop) or to the failed state, and nothing
\* follows the failed state but a new run.
Rank(p) ==
    CASE p = "open" -> 1 [] p = "loop" -> 2 [] p = "reduce" -> 3
      [] p = "render" -> 4 [] p = "savefig" -> 5 [] p = "print" -> 6
      [] p = "done" -> 7 [] OTHER -> 8

C4_Step ==
    IF run' = run
    THEN /\ pc \notin Terminal
         /\ \/ pc' = "failed" /\ failure'.stage = StageOf(pc)
            \/ pc' # "failed" /\ Rank(pc') = Rank(pc) + 1
            \/ pc = "loop" /\ pc' = "loop" /\ k' = k + 1
    ELSE pc \in Terminal /\ pc' = "open" /\ run' = run + 1

C4_LinearRun ==
    /\ [](\A s \in Stages : entered[s] <= 1)
    /\ [][C4_Step]_vars

C4_Witness ==
    /\ pc = "done" /\ \A s \in Stages : entered[s] = 1
    /\ Len(history) = 1 /\ history[1].pc = "failed"

\* C5: in every run that ends in failure the output file is what it was
\* when the run started.
C5_NoPartialOutput == pc = "failed" => outFile = outFileAtStart

\* C6: after savefig has succeeded the output file is a complete image
\* written by this run, with a modification time later than that of
\* whatever was there when the run started.
C6_OutputWrittenByThisRun ==
    pc \in {"print", "done"} =>
        /\ outFile.kind = "image"
        /\ outFile.by = run
        /\ outFile.mtime = clock
        /\ outFile.mtime > outFileAtStart.mtime

\* a second successful run over the image of a first successful run
C6_Witness ==
    /\ run = 2 /\ pc = "done" /\ history[1].pc = "done"
    /\ outFileAtStart.kind = "image" /\ outFileAtStart.by = 1
    /\ outFile.by = 2

\* C7: the confirmation line, naming the output path, is the only line
\* printed, is printed by a run that has reached Done, after savefig wrote
\* the file; every other run has printed nothing.
C7_OneConfirmationLine ==
    /\ pc = "done" => stdout = <<Confirmation>> /\ stdout[1].path = output_img
    /\ pc # "done" => stdout = <<>>
    /\ stdout # <<>> => outFile.kind = "image" /\ outFile.by = run

C7_Witness ==
    /\ run = 2 /\ pc = "done" /\ Len(stdout) = 1
    /\ history[1].pc = "failed" /\ history[1].failure.stage = "Write"

\* C8: the point of row i (0-based) is drawn with palette entry i mod 20:
\* adjacent rows differ, rows 20 apart agree.
C8_CyclicPalette ==
    entered["Write"] > 0 =>
        /\ \A i \in 1..num_points : scatter[i] = (i - 1) % PaletteSize
        /\ \A i \in 1..(num_points - 1) : scatter[i] # scatter[i + 1]
        /\ \A i \in 1..(num_points - PaletteSize) :
              scatter[i] = scatter[i + PaletteSize]

\* C9: embeddings and labels grow together (both have the length k of the
\* records consumed, also when a record without embedding ends the run),
\* label i is the id of record i or the empty string, and a rendered run
\* has exactly N annotations, annotation i carrying label i at the
\* coordinates of row i.
C9_LabelsAligned ==
    /\ Len(embeddings) = k /\ Len(labels) = k
    /\ \A i \in 1..k : labels[i] = LabelOf(i) /\ embeddings[i] = Vector(inputFile, i)
    /\ (pc = "failed" /\ failure.exc = "KeyError") => k = inputFile.noEmbAt - 1
    /\ entered["Reduce"] > 0 => k = N
    /\ entered["Write"] > 0 =>
          /\ Len(annots) = N
          /\ \A i \in 1..N :
                /\ annots[i].text = LabelOf(i)
                /\ annots[i].at = embeddings_2d[i]
                /\ annots[i].at.row = i

C9_Witness ==
    /\ pc = "done" /\ N = Perplexity + 1 /\ inputFile.noIdAt = 1
    /\ annots[1].text = "" /\ annots[2].text = "b" /\ annots[3].text = "c"
    /\ Len(annots) = N

UpToReduce(o) ==
    [projected |-> o.hasProj,
     failure |-> IF o.hasProj THEN NoFailure ELSE o.failure,
     proj |-> IF o.hasProj THEN o.proj ELSE <<>>]

====
